---------------------------- MODULE Spec2Model ----------------------------
(***************************************************************************)
(* Affirmly API (backend/app/main.py): the sliding-window rate limiter     *)
(* middleware, the request validator and the affirmation handler, as a     *)
(* state machine over concurrently handled requests.                       *)
(*                                                                         *)
(* Strings are sequences of characters; a character is a one-element       *)
(* token ("a", " ", ",", ...).  An absent header / peer address and the    *)
(* empty string are both <<>>: the code only tests their truthiness.       *)
(* Timestamps are integer clock ticks.                                     *)
(***************************************************************************)
EXTENDS Integers, Sequences, FiniteSets, TLC

(* ------------------------------ bounds -------------------------------- *)
MaxTime == 2         \* the clock runs 0..MaxTime
MaxArrivals == 3     \* requests arriving in one behaviour
MaxN == 2            \* RATE_LIMIT_MAX_REQUESTS is drawn from 1..MaxN
MaxW == 1            \* RATE_LIMIT_WINDOW_SECONDS is drawn from 1..MaxW
MaxFeelingLen == 4   \* feelings enumerated over FeelingAlphabet
MaxNameLen == 3      \* names enumerated over NameAlphabet
MaxHeaderLen == 3    \* x-forwarded-for values enumerated over HeaderAlphabet
MaxOutputLen == 3    \* output texts enumerated over OutputAlphabet

\* the requests in flight at one time are handled by these workers
Reqs == {1, 2}
Times == 0..MaxTime
NoHolder == 0        \* the lock is free

(* --------------------------- characters ------------------------------- *)
LowerLetters ==
    {"a", "b", "c", "d", "e", "f", "g", "i", "k", "l", "n", "o", "p", "r", "s",
     "t", "u", "v", "x"}
UpperLetters == {"A"}
Digits == {"7"}
SpaceChars == {" ", "\t"}
EmojiChars == {"U+1F61F"}

IsSpace(ch) == ch \in SpaceChars
IsAlpha(ch) == ch \in LowerLetters \cup UpperLetters
IsAlnum(ch) == IsAlpha(ch) \/ ch \in Digits
IsEmoji(ch) == ch \in EmojiChars
ToLower(ch) == IF ch = "A" THEN "a" ELSE ch

(* ----------------------------- strings -------------------------------- *)
RECURSIVE LStrip(_)
LStrip(s) == IF s # <<>> /\ IsSpace(Head(s)) THEN LStrip(Tail(s)) ELSE s

RECURSIVE RStrip(_)
RStrip(s) ==
    IF s # <<>> /\ IsSpace(s[Len(s)]) THEN RStrip(SubSeq(s, 1, Len(s) - 1)) ELSE s

Strip(s) == RStrip(LStrip(s))

Lower(s) == [i \in 1..Len(s) |-> ToLower(s[i])]

\* s.split(sep)[0]: everything before the first separator
RECURSIVE FirstToken(_, _)
FirstToken(s, sep) ==
    IF s = <<>> \/ Head(s) = sep THEN <<>>
    ELSE <<Head(s)>> \o FirstToken(Tail(s), sep)

\* s.split(): the maximal runs of non-whitespace characters, in order
\* (by position, so that a long string is split without deep recursion)
WordStarts(s) ==
    {i \in 1..Len(s) : ~IsSpace(s[i]) /\ (i = 1 \/ IsSpace(s[i - 1]))}

WordEnd(s, i) ==
    CHOOSE j \in i..Len(s) :
        /\ \A k \in i..j : ~IsSpace(s[k])
        /\ j = Len(s) \/ IsSpace(s[j + 1])

Words(s) ==
    LET starts == WordStarts(s)
        nth(k) == CHOOSE i \in starts : Cardinality({j \in starts : j < i}) = k - 1
    IN  [k \in 1..Cardinality(starts) |-> SubSeq(s, nth(k), WordEnd(s, nth(k)))]

CountIf(s, P(_)) == Cardinality({i \in 1..Len(s) : P(s[i])})
AnyChar(s, P(_)) == \E i \in 1..Len(s) : P(s[i])

(* ------------------------ program constants --------------------------- *)
NameMinLength == 1
NameMaxLength == 60
FeelingMinLength == 2
FeelingMaxLength == 280
DetailsMaxLength == 500

SUPPORTED_LANGUAGES == {"en", "af", "la", "zh", "ru", "de", "fr", "es"}

FEELING_SUGGESTIONS ==
    { <<  <<"a", "n", "x">>,       "anxious"   >>,
      <<  <<"s", "t", "r", "s">>,  "stressed"  >>,
      <<  <<"d", "e", "p">>,       "depressed" >>,
      <<  <<"c", "o", "n", "f">>,  "confused"  >> }

Suggestion(key) == (CHOOSE e \in FEELING_SUGGESTIONS : e[1] = key)[2]

\* EMOJI_PATTERN.search(s): some code point of s lies in the emoji ranges
EMOJI_PATTERN(s) == AnyChar(s, IsEmoji)

(* ------------------------- client identifier -------------------------- *)
\* variant: the first token is used as it stands, without .strip()
\* (meta as for GetClientIdentifier)
GetClientIdentifierUntrimmed(meta) ==
    LET first == FirstToken(meta.xff, ",")
    IN  IF meta.xff # <<>> /\ first # <<>> THEN first
        ELSE IF meta.host # <<>> THEN meta.host
        ELSE <<"unknown-client">>

\* lines 77-85; meta = [xff |-> the x-forwarded-for header, host |-> request.client.host]
GetClientIdentifier(meta) ==
    LET first == Strip(FirstToken(meta.xff, ","))
    IN  IF meta.xff # <<>> /\ first # <<>> THEN first
        ELSE IF meta.host # <<>> THEN meta.host
        ELSE <<"unknown-client">>

(* ----------------------------- validator ------------------------------ *)
Ok(v) == [ok |-> TRUE, value |-> v, msg |-> ""]
Err(m) == [ok |-> FALSE, value |-> <<>>, msg |-> m]

\* Field(min_length, max_length) under str_strip_whitespace: the stripped
\* value is length-checked before any field_validator runs.
LengthCheck(v, lo, hi) ==
    IF Len(v) < lo THEN Err("string_too_short")
    ELSE IF Len(v) > hi THEN Err("string_too_long")
    ELSE Ok(v)

NameChar(ch) == IsAlnum(ch) \/ ch \in {" ", "-", "'"}

\* "".join(ch for ch in value if ch.isalnum() or ch in " -'")
KeepNameChars(s) == SelectSeq(s, NameChar)

\* variant: `return cleaned` for `return cleaned.strip()`
name_not_trimmed(value) ==
    LET cleaned == KeepNameChars(value)
    IN  IF Strip(cleaned) = <<>> THEN Err("Name must contain valid characters.")
        ELSE Ok(cleaned)

\* lines 121-127
name_is_alpha_friendly(value) ==
    LET cleaned == KeepNameChars(value)
    IN  IF Strip(cleaned) = <<>> THEN Err("Name must contain valid characters.")
        ELSE Ok(Strip(cleaned))

\* variant: the single-word rule is tested before the shorthand table
feeling_single_word_first(value) ==
    LET feeling == Strip(value)
        shorthand == Lower(feeling)
        alpha_count == CountIf(feeling, IsAlpha)
        words == Words(feeling)
        words_with_letters == SelectSeq(words, LAMBDA w : AnyChar(w, IsAlpha))
    IN  IF feeling = <<>> THEN Err("Please describe how you are feeling.")
        ELSE IF EMOJI_PATTERN(feeling)
        THEN Err("Please use descriptive text instead of emoji for your feeling.")
        ELSE IF Len(words_with_letters) = 1 /\ Len(words_with_letters[1]) < 5
        THEN Err("Please be more descriptive, for example: 'anxious about my presentation'.")
        ELSE IF \E e \in FEELING_SUGGESTIONS : e[1] = shorthand
        THEN Err("Did you mean '" \o Suggestion(shorthand)
                 \o "'? Please use a full descriptive word.")
        ELSE IF alpha_count < 3
        THEN Err("Please use valid words to describe your feeling.")
        ELSE Ok(feeling)

\* lines 129-152
feeling_is_descriptive(value) ==
    LET feeling == Strip(value)
        shorthand == Lower(feeling)
        alpha_count == CountIf(feeling, IsAlpha)
        words == Words(feeling)
        words_with_letters == SelectSeq(words, LAMBDA w : AnyChar(w, IsAlpha))
    IN  IF feeling = <<>> THEN Err("Please describe how you are feeling.")
        ELSE IF EMOJI_PATTERN(feeling)
        THEN Err("Please use descriptive text instead of emoji for your feeling.")
        ELSE IF \E e \in FEELING_SUGGESTIONS : e[1] = shorthand
        THEN Err("Did you mean '" \o Suggestion(shorthand)
                 \o "'? Please use a full descriptive word.")
        ELSE IF alpha_count < 3
        THEN Err("Please use valid words to describe your feeling.")
        ELSE IF Len(words_with_letters) = 1 /\ Len(words_with_letters[1]) < 5
        THEN Err("Please be more descriptive, for example: 'anxious about my presentation'.")
        ELSE Ok(feeling)

ValidateName(raw) ==
    LET lc == LengthCheck(Strip(raw), NameMinLength, NameMaxLength)
    IN  IF lc.ok THEN name_is_alpha_friendly(lc.value) ELSE lc

\* variant: the validator of the field runs before its length is checked
ValidateFeelingRulesFirst(raw) ==
    LET v == feeling_is_descriptive(Strip(raw))
    IN  IF v.ok THEN LengthCheck(v.value, FeelingMinLength, FeelingMaxLength)
        ELSE v

ValidateFeeling(raw) ==
    LET lc == LengthCheck(Strip(raw), FeelingMinLength, FeelingMaxLength)
    IN  IF lc.ok THEN feeling_is_descriptive(lc.value) ELSE lc

ValidateDetails(raw) == LengthCheck(Strip(raw), 0, DetailsMaxLength)

ValidateLanguage(raw) ==
    IF raw \in SUPPORTED_LANGUAGES THEN Ok(raw) ELSE Err("literal_error")

\* AffirmationRequest(**body): every field is validated, the errors collected
ValidateBody(b) ==
    [name     |-> ValidateName(b.name),
     feeling  |-> ValidateFeeling(b.feeling),
     details  |-> ValidateDetails(b.details),
     language |-> ValidateLanguage(b.language)]

\* variant: the field errors are not looked at
HasErrorsIgnored(v) == FALSE

\* RequestValidationError is raised when any field failed
HasErrors(v) ==
    ~v.name.ok \/ ~v.feeling.ok \/ ~v.details.ok \/ ~v.language.ok

(* ------------------------------ handler ------------------------------- *)
NulChar == "NUL"     \* the code point 0

\* the classes of exception the external call is seen to raise: pydantic's
\* ValidationError, which line 211 catches, and any other Exception
Exceptions == {"ValidationError", "Exception"}

NoException == ""
NoResponse == [status |-> 0, error |-> "", message |-> "", affirmation |-> <<>>]

\* lines 244-250: an HTTPException becomes this JSON response
http_exception_handler(code, detail) ==
    [status |-> code, error |-> "HttpError", message |-> detail,
     affirmation |-> <<>>]

\* line 208 under response_model=AffirmationResponse
AffirmationResponse(text) ==
    [status |-> 200, error |-> "", message |-> "", affirmation |-> text]

\* text.replace("\x00", "")
RemoveNul(s) == SelectSeq(s, LAMBDA ch : ch # NulChar)

\* lines 190-191
Unconfigured == http_exception_handler(500, "Server is missing OPENAI_API_KEY.")

\* variant: without line 209, the HTTPException of line 205 is caught by
\* line 214 and translated again
OnReturnRetranslated(out) ==
    LET text == Strip(out)
        safe_text == Strip(RemoveNul(text))
    IN  IF text = <<>>
        THEN http_exception_handler(502, "Failed to generate affirmation.")
        ELSE AffirmationResponse(safe_text)

\* lines 203-210: the call returned `out` as response.output_text (None and
\* "" are both <<>>)
OnReturn(out) ==
    LET text == Strip(out)
        safe_text == Strip(RemoveNul(text))
    IN  IF text = <<>>
        THEN http_exception_handler(502, "Empty response from language model.")
        ELSE AffirmationResponse(safe_text)

\* lines 211-216: the call raised an exception of class exc
OnRaise(exc) ==
    IF exc = "ValidationError"
    THEN http_exception_handler(400, "Invalid input payload.")
    ELSE http_exception_handler(502, "Failed to generate affirmation.")

\* lines 188-216 for one behaviour of the external model:
\* [raises |-> an exception class or NoException, text |-> output_text]
create_affirmation(cfg, behaviour) ==
    IF ~cfg THEN Unconfigured
    ELSE IF behaviour.raises # NoException THEN OnRaise(behaviour.raises)
    ELSE OnReturn(behaviour.text)

(* ---------------- inputs of the functions on their own ----------------- *)
\* every string over the alphabet of length 0..n
Strings(alphabet, n) == UNION {[1..k -> alphabet] : k \in 0..n}
Repeat(ch, n) == [i \in 1..n |-> ch]

FeelingAlphabet == {"a", "n", "x", "A", "7", " ", "U+1F61F"}
NameAlphabet == {"a", " ", "!", "-"}
HeaderAlphabet == {"a", ",", " "}
OutputAlphabet == {"o", " ", NulChar}

\* "nervous before a big presentation"
NervousBeforePresentation ==
    <<"n", "e", "r", "v", "o", "u", "s", " ", "b", "e", "f", "o", "r", "e", " ",
      "a", " ", "b", "i", "g", " ", "p", "r", "e", "s", "e", "n", "t", "a", "t",
      "i", "o", "n">>

Feelings ==
    Strings(FeelingAlphabet, MaxFeelingLen)
    \cup { <<"o", "k">>, <<"s", "a", "d">>, <<"a", "n", "x">>,
           <<"s", "t", "r", "s">>, <<"d", "e", "p">>,
           <<"c", "o", "n", "f">>,
           <<"t", "i", "r", "e", "d">>,
           NervousBeforePresentation,
           Repeat("a", FeelingMaxLength),
           Repeat("a", FeelingMaxLength + 1),
           <<" ">> \o Repeat("a", FeelingMaxLength) \o <<" ">>,
           <<"U+1F61F">> \o Repeat("a", FeelingMaxLength) }

Names ==
    Strings(NameAlphabet, MaxNameLen)
    \cup { <<"A", "l", "e", "x">>, <<"A", "l", "'", "s", "-", "7">>,
           Repeat("a", NameMaxLength),
           Repeat("a", NameMaxLength + 1),
           <<" ">> \o Repeat("a", NameMaxLength),
           Repeat("a", NameMaxLength) \o <<"!">>,
           Repeat("!", NameMaxLength + 1) }

Details ==
    { <<>>, <<"o", "k">>,
      Repeat("a", DetailsMaxLength),
      Repeat("a", DetailsMaxLength + 1),
      Repeat("a", DetailsMaxLength) \o <<" ">> }

Languages == {"en", "fr", "xx"}

\* the bodies handed to AffirmationRequest: every name with a feeling that
\* passes, every feeling with a name that passes, and the fields combined
Payloads ==
    LET goodName == <<"A", "l">>
        goodFeeling == <<"t", "i", "r", "e", "d">>
        body(n, f, d, l) == [name |-> n, feeling |-> f, details |-> d, language |-> l]
    IN  {body(n, goodFeeling, <<>>, "en") : n \in Names}
        \cup {body(goodName, f, <<>>, "en") : f \in Feelings}
        \cup {body(n, f, d, l) :
                 n \in {goodName, Repeat("a", NameMaxLength + 1)},
                 f \in {goodFeeling, <<"a", "n", "x">>, <<"U+1F61F">>},
                 d \in Details,
                 l \in Languages}

\* the transport metadata handed to _get_client_identifier
Transports ==
    [xff : Strings(HeaderAlphabet, MaxHeaderLen), host : {<<>>, <<"b">>}]

\* the behaviours of the external model in one call
Behaviours ==
    {[raises |-> NoException, text |-> t] : t \in Strings(OutputAlphabet, MaxOutputLen)}
    \cup {[raises |-> e, text |-> <<>>] : e \in Exceptions}

NotParsed == [validated |-> FALSE]
NoIdent == <<>>
NoBehaviour == [raises |-> NoException, text |-> <<>>]

(* ------------------------------ inputs -------------------------------- *)
NoRoute == [method |-> "", path |-> ""]
NoMeta == [xff |-> <<>>, host |-> <<>>]
NoBody == [name |-> <<>>, feeling |-> <<>>, details |-> <<>>, language |-> "en"]

\* the requests sent to the service: two clients, a body that validates and
\* one that does not, the gated route and two routes that are not gated
Inputs ==
    LET ma == [xff |-> <<"a", ",", " ", "b">>, host |-> <<"b">>]
        mb == [xff |-> <<>>, host |-> <<"b">>]
        post == [method |-> "POST", path |-> "/api/affirmation"]
        good == [name |-> <<"A", "l">>, feeling |-> <<"t", "i", "r", "e", "d">>,
                 details |-> <<>>, language |-> "en"]
        bad == [name |-> <<"A", "l">>, feeling |-> <<"a", "n", "x">>,
                details |-> <<>>, language |-> "en"]
    IN  << [route |-> post, meta |-> ma, body |-> good],
           [route |-> post, meta |-> ma, body |-> bad],
           [route |-> post, meta |-> mb, body |-> good],
           [route |-> [method |-> "GET", path |-> "/health"],
            meta |-> ma, body |-> NoBody],
           [route |-> [method |-> "GET", path |-> "/api/affirmation"],
            meta |-> ma, body |-> NoBody] >>

InputIds == 1..Len(Inputs)
NoInput == 0         \* the worker has no request

ClientIds == {GetClientIdentifier(Inputs[i].meta) : i \in InputIds}

\* response.output_text of the external model
CollabOutputs == { <<>>, <<" ">>, <<" ", "o", "k">>, <<NulChar>> }

(* ------------------------------- state -------------------------------- *)
VARIABLES
    configured,      \* openai_client is not None
    maxRequests,     \* RATE_LIMIT_MAX_REQUESTS
    windowSeconds,   \* RATE_LIMIT_WINDOW_SECONDS
    clock,           \* time.time()
    storage,         \* _rate_limit_storage: client id -> deque of timestamps
    lock,            \* _rate_limit_lock: the request holding it, or NoHolder
    pc,              \* where each request is
    req,             \* the request each worker handles, one of Inputs
    now,             \* the local `now` of rate_limit_middleware
    clientId,        \* the local `client_id` of rate_limit_middleware
    outcome,         \* what the limiter decided: "None", "Allowed", "Denied"
    status,          \* the response's status code, 0 while there is none
    called,          \* the external model was invoked for the request
    allowed,         \* history: per client, how many admits were Allowed at each time
    arrivals,        \* requests that may still arrive
    payload,         \* a JSON body handed to AffirmationRequest
    parsed,          \* what AffirmationRequest(**payload) gave
    reparsed,        \* what validating the cleaned fields again gave
    transport,       \* a request's x-forwarded-for header and peer address
    ident,           \* what _get_client_identifier returned for it
    collab,          \* how the external model behaves in one call
    response         \* what create_affirmation answered to that call

\* the state of the service: configuration, limiter, requests in flight
service == <<configured, maxRequests, windowSeconds, clock, storage, lock, pc,
             req, now, clientId, outcome, status, called, allowed, arrivals>>

\* the validator, the client identifier and the handler observed on their own
validation == <<payload, parsed, reparsed>>
identification == <<transport, ident>>
handling == <<collab, response>>
direct == <<validation, identification, handling>>

vars == <<service, direct>>

config == <<configured, maxRequests, windowSeconds>>

\* the request of worker r: request.method and request.url.path, the
\* x-forwarded-for header and request.client.host, the JSON body
Request(r) ==
    IF req[r] = NoInput THEN [route |-> NoRoute, meta |-> NoMeta, body |-> NoBody]
    ELSE Inputs[req[r]]
Route(r) == Request(r).route
Meta(r) == Request(r).meta
Body(r) == Request(r).body

\* no function is observed on its own
NothingDirect ==
    /\ payload = NoBody /\ parsed = NotParsed /\ reparsed = NotParsed
    /\ transport = NoMeta /\ ident = NoIdent
    /\ collab = NoBehaviour /\ response = NoResponse

\* the module as loaded (lines 20-42), with n requests still to arrive
Boot(n) ==
    /\ configured \in BOOLEAN
    /\ maxRequests \in 1..MaxN
    /\ windowSeconds \in 1..MaxW
    /\ clock = 0
    /\ storage = [c \in ClientIds |-> <<>>]
    /\ lock = NoHolder
    /\ pc = [r \in Reqs |-> "idle"]
    /\ req = [r \in Reqs |-> NoInput]
    /\ now = [r \in Reqs |-> 0]
    /\ clientId = [r \in Reqs |-> <<>>]
    /\ outcome = [r \in Reqs |-> "None"]
    /\ status = [r \in Reqs |-> 0]
    /\ called = [r \in Reqs |-> FALSE]
    /\ allowed = [c \in ClientIds |-> [t \in Times |-> 0]]
    /\ arrivals = n
    /\ NothingDirect

Init == Boot(MaxArrivals)

(* ---------------------------- the limiter ----------------------------- *)
\* variant: the gate tests the path alone
IsLimitedPathOnly(rt) == rt.path = "/api/affirmation"

\* line 92: the gate applies to this method and path only
IsLimited(rt) == rt.method = "POST" /\ rt.path = "/api/affirmation"

\* variant: `if` for `while`, at most one entry is dropped
PruneOnce(bucket, cutoff) ==
    IF bucket # <<>> /\ Head(bucket) < cutoff THEN Tail(bucket) ELSE bucket

\* lines 98-99: while bucket and bucket[0] < cutoff: bucket.popleft()
RECURSIVE Prune(_, _)
Prune(bucket, cutoff) ==
    IF bucket # <<>> /\ Head(bucket) < cutoff THEN Prune(Tail(bucket), cutoff)
    ELSE bucket

\* variant: `>` for `>=`
OverLimitStrict(bucket, limit) == Len(bucket) > limit

\* line 100
OverLimit(bucket, limit) == Len(bucket) >= limit

\* variant: one deque shared by all the clients
StoreBucketShared(st, cid, bucket) == [c \in DOMAIN st |-> bucket]

\* the deque of one client is mutated in place
StoreBucket(st, cid, bucket) == [st EXCEPT ![cid] = bucket]

\* variant: call_next inside the `with` block, the lock stays held
LockKeptAfterWith(r) == r

\* leaving the `with _rate_limit_lock:` block releases the lock
LockAfterWith(r) == NoHolder

\* time passes; only a request still to arrive can read the clock
Tick ==
    /\ clock < MaxTime
    /\ arrivals > 0
    /\ clock' = clock + 1
    /\ UNCHANGED <<direct, config, storage, lock, pc, req, now, clientId, outcome,
                   status, called, allowed, arrivals>>

\* a request for the gated route reaches the middleware; lines 92-94: it
\* reads the time and derives the client id
ArriveLimited(r) ==
    /\ pc[r] = "idle"
    /\ arrivals > 0
    /\ \E i \in InputIds :
         /\ IsLimited(Inputs[i].route)
         /\ req' = [req EXCEPT ![r] = i]
         /\ clientId' = [clientId EXCEPT ![r] = GetClientIdentifier(Inputs[i].meta)]
    /\ now' = [now EXCEPT ![r] = clock]
    /\ pc' = [pc EXCEPT ![r] = "waitlock"]
    /\ arrivals' = arrivals - 1
    /\ UNCHANGED <<direct, config, clock, storage, lock, outcome, status, called, allowed>>

\* any other request reaches the middleware; line 92 is false: on to line 109
ArriveOther(r) ==
    /\ pc[r] = "idle"
    /\ arrivals > 0
    /\ \E i \in InputIds :
         /\ ~IsLimited(Inputs[i].route)
         /\ req' = [req EXCEPT ![r] = i]
    /\ pc' = [pc EXCEPT ![r] = "call_next"]
    /\ arrivals' = arrivals - 1
    /\ UNCHANGED <<direct, config, clock, storage, lock, now, clientId, outcome, status,
                   called, allowed>>

\* line 95: entering the `with` block takes the lock
Acquire(r) ==
    /\ pc[r] = "waitlock"
    /\ lock = NoHolder
    /\ lock' = r
    /\ pc' = [pc EXCEPT ![r] = "cs"]
    /\ UNCHANGED <<direct, config, clock, storage, req, now, clientId, outcome, status,
                   called, allowed, arrivals>>

\* variant: a copy of the deque is pruned, the deque itself only grows
AdmitPruneCopy(r) ==
    /\ pc[r] = "cs"
    /\ LET cid == clientId[r]
           cutoff == now[r] - windowSeconds
           bucket == Prune(storage[cid], cutoff)
       IN  IF OverLimit(bucket, maxRequests)
           THEN /\ outcome' = [outcome EXCEPT ![r] = "Denied"]
                /\ status' = [status EXCEPT ![r] = 429]
                /\ pc' = [pc EXCEPT ![r] = "done"]
                /\ UNCHANGED <<storage, allowed>>
           ELSE /\ storage' = StoreBucket(storage, cid, Append(storage[cid], now[r]))
                /\ outcome' = [outcome EXCEPT ![r] = "Allowed"]
                /\ pc' = [pc EXCEPT ![r] = "call_next"]
                /\ allowed' = [allowed EXCEPT ![cid][now[r]] = @ + 1]
                /\ UNCHANGED status
    /\ lock' = LockAfterWith(r)
    /\ UNCHANGED <<direct, config, clock, req, now, clientId, called, arrivals>>

\* variant: `now` is recorded before the check, so also when Denied
AdmitAppendFirst(r) ==
    /\ pc[r] = "cs"
    /\ LET cid == clientId[r]
           cutoff == now[r] - windowSeconds
           bucket == Append(Prune(storage[cid], cutoff), now[r])
       IN  /\ storage' = StoreBucket(storage, cid, bucket)
           /\ IF Len(bucket) > maxRequests
              THEN /\ outcome' = [outcome EXCEPT ![r] = "Denied"]
                   /\ status' = [status EXCEPT ![r] = 429]
                   /\ pc' = [pc EXCEPT ![r] = "done"]
                   /\ UNCHANGED allowed
              ELSE /\ outcome' = [outcome EXCEPT ![r] = "Allowed"]
                   /\ pc' = [pc EXCEPT ![r] = "call_next"]
                   /\ allowed' = [allowed EXCEPT ![cid][now[r]] = @ + 1]
                   /\ UNCHANGED status
    /\ lock' = LockAfterWith(r)
    /\ UNCHANGED <<direct, config, clock, req, now, clientId, called, arrivals>>

\* lines 96-108: prune, check, then 429 or append; the block's exit releases
Admit(r) ==
    /\ pc[r] = "cs"
    /\ LET cid == clientId[r]
           cutoff == now[r] - windowSeconds
           bucket == Prune(storage[cid], cutoff)
       IN  IF OverLimit(bucket, maxRequests)
           THEN /\ storage' = StoreBucket(storage, cid, bucket)
                /\ outcome' = [outcome EXCEPT ![r] = "Denied"]
                /\ status' = [status EXCEPT ![r] = 429]
                /\ pc' = [pc EXCEPT ![r] = "done"]
                /\ UNCHANGED allowed
           ELSE /\ storage' = StoreBucket(storage, cid, Append(bucket, now[r]))
                /\ outcome' = [outcome EXCEPT ![r] = "Allowed"]
                /\ pc' = [pc EXCEPT ![r] = "call_next"]
                /\ allowed' = [allowed EXCEPT ![cid][now[r]] = @ + 1]
                /\ UNCHANGED status
    /\ lock' = LockAfterWith(r)
    /\ UNCHANGED <<direct, config, clock, req, now, clientId, called, arrivals>>

(* ----------------------- downstream of call_next ---------------------- *)
\* variant: a request that fails validation gives its admit back
DispatchWithRefund(r) ==
    /\ pc[r] = "call_next"
    /\ IF IsLimited(Route(r))
       THEN IF HasErrors(ValidateBody(Body(r)))
            THEN /\ status' = [status EXCEPT ![r] = 422]
                 /\ pc' = [pc EXCEPT ![r] = "done"]
                 /\ storage' = [storage EXCEPT ![clientId[r]] =
                                  SelectSeq(@, LAMBDA t : t # now[r])]
            ELSE /\ pc' = [pc EXCEPT ![r] = "handler"]
                 /\ UNCHANGED <<status, storage>>
       ELSE /\ status' = [status EXCEPT ![r] =
                            IF Route(r).path = "/health" THEN 200 ELSE 405]
            /\ pc' = [pc EXCEPT ![r] = "done"]
            /\ UNCHANGED storage
    /\ UNCHANGED <<direct, config, clock, lock, req, now, clientId, outcome,
                   called, allowed, arrivals>>

\* line 109: routing, then the body is parsed into AffirmationRequest
Dispatch(r) ==
    /\ pc[r] = "call_next"
    /\ IF IsLimited(Route(r))
       THEN IF HasErrors(ValidateBody(Body(r)))
            THEN /\ status' = [status EXCEPT ![r] = 422]
                 /\ pc' = [pc EXCEPT ![r] = "done"]
            ELSE /\ pc' = [pc EXCEPT ![r] = "handler"]
                 /\ UNCHANGED status
       ELSE /\ status' = [status EXCEPT ![r] =
                            IF Route(r).path = "/health" THEN 200 ELSE 405]
            /\ pc' = [pc EXCEPT ![r] = "done"]
    /\ UNCHANGED <<direct, config, clock, storage, lock, req, now, clientId, outcome,
                   called, allowed, arrivals>>

\* lines 190-194: 500 when unconfigured, else the external call starts
Handler(r) ==
    /\ pc[r] = "handler"
    /\ IF ~configured
       THEN /\ status' = [status EXCEPT ![r] = Unconfigured.status]
            /\ pc' = [pc EXCEPT ![r] = "done"]
            /\ UNCHANGED called
       ELSE /\ called' = [called EXCEPT ![r] = TRUE]
            /\ pc' = [pc EXCEPT ![r] = "calling"]
            /\ UNCHANGED status
    /\ UNCHANGED <<direct, config, clock, storage, lock, req, now, clientId, outcome,
                   allowed, arrivals>>

\* lines 203-208: the model answered
CollabReturn(r) ==
    /\ pc[r] = "calling"
    /\ \E out \in CollabOutputs :
         status' = [status EXCEPT ![r] = OnReturn(out).status]
    /\ pc' = [pc EXCEPT ![r] = "done"]
    /\ UNCHANGED <<direct, config, clock, storage, lock, req, now, clientId, outcome,
                   called, allowed, arrivals>>

\* lines 211-216: the call raised
CollabRaise(r) ==
    /\ pc[r] = "calling"
    /\ \E exc \in Exceptions :
         status' = [status EXCEPT ![r] = OnRaise(exc).status]
    /\ pc' = [pc EXCEPT ![r] = "done"]
    /\ UNCHANGED <<direct, config, clock, storage, lock, req, now, clientId, outcome,
                   called, allowed, arrivals>>

\* the worker's locals once a request is over
Reset(r) ==
    /\ pc' = [pc EXCEPT ![r] = "idle"]
    /\ req' = [req EXCEPT ![r] = NoInput]
    /\ now' = [now EXCEPT ![r] = 0]
    /\ clientId' = [clientId EXCEPT ![r] = <<>>]
    /\ outcome' = [outcome EXCEPT ![r] = "None"]
    /\ status' = [status EXCEPT ![r] = 0]
    /\ called' = [called EXCEPT ![r] = FALSE]

\* the client went away while the request was downstream: the request is
\* abandoned without a response
Disconnect(r) ==
    /\ pc[r] \in {"call_next", "handler", "calling"}
    /\ Reset(r)
    /\ UNCHANGED <<direct, config, clock, storage, lock, allowed, arrivals>>

\* the response was sent; the worker serves the next request
Recycle(r) ==
    /\ pc[r] = "done"
    /\ Reset(r)
    /\ UNCHANGED <<direct, config, clock, storage, lock, allowed, arrivals>>

Next ==
    \/ Tick
    \/ \E r \in Reqs : ArriveLimited(r)
    \/ \E r \in Reqs : ArriveOther(r)
    \/ \E r \in Reqs : Acquire(r)
    \/ \E r \in Reqs : Admit(r)
    \/ \E r \in Reqs : Dispatch(r)
    \/ \E r \in Reqs : Handler(r)
    \/ \E r \in Reqs : CollabReturn(r)
    \/ \E r \in Reqs : CollabRaise(r)
    \/ \E r \in Reqs : Disconnect(r)
    \/ \E r \in Reqs : Recycle(r)

Spec == Init /\ [][Next]_vars

\* the same service, observed for one request more
InitRace == Boot(MaxArrivals + 1)
SpecRace == InitRace /\ [][Next]_vars


(* ------------------ the validator observed on its own ----------------- *)
\* the service with no request, fixed configuration
AtRest ==
    /\ maxRequests = 1 /\ windowSeconds = 1
    /\ clock = 0
    /\ storage = [c \in ClientIds |-> <<>>]
    /\ lock = NoHolder
    /\ pc = [r \in Reqs |-> "idle"]
    /\ req = [r \in Reqs |-> NoInput]
    /\ now = [r \in Reqs |-> 0]
    /\ clientId = [r \in Reqs |-> <<>>]
    /\ outcome = [r \in Reqs |-> "None"]
    /\ status = [r \in Reqs |-> 0]
    /\ called = [r \in Reqs |-> FALSE]
    /\ allowed = [c \in ClientIds |-> [t \in Times |-> 0]]
    /\ arrivals = 0

InitValidate ==
    /\ AtRest /\ configured = TRUE
    /\ payload \in Payloads
    /\ parsed = NotParsed /\ reparsed = NotParsed
    /\ transport = NoMeta /\ ident = NoIdent
    /\ collab = NoBehaviour /\ response = NoResponse

\* the fields of a validated model, as a body again
Cleaned(v) ==
    [name |-> v.name.value, feeling |-> v.feeling.value,
     details |-> v.details.value, language |-> v.language.value]

\* AffirmationRequest(**payload), lines 113-152
Validate ==
    /\ parsed = NotParsed
    /\ parsed' = ValidateBody(payload)
    /\ UNCHANGED <<service, payload, reparsed, identification, handling>>

\* AffirmationRequest(**model.model_dump()) of an accepted request
Revalidate ==
    /\ parsed # NotParsed
    /\ ~HasErrors(parsed)
    /\ reparsed = NotParsed
    /\ reparsed' = ValidateBody(Cleaned(parsed))
    /\ UNCHANGED <<service, payload, parsed, identification, handling>>

NextValidate == Validate \/ Revalidate
SpecValidate == InitValidate /\ [][NextValidate]_vars

(* ------------- the client identifier observed on its own -------------- *)
InitIdentify ==
    /\ AtRest /\ configured = TRUE
    /\ transport \in Transports
    /\ ident = NoIdent
    /\ payload = NoBody /\ parsed = NotParsed /\ reparsed = NotParsed
    /\ collab = NoBehaviour /\ response = NoResponse

\* line 94: client_id = _get_client_identifier(request)
Identify ==
    /\ ident = NoIdent
    /\ ident' = GetClientIdentifier(transport)
    /\ UNCHANGED <<service, validation, transport, handling>>

NextIdentify == Identify
SpecIdentify == InitIdentify /\ [][NextIdentify]_vars

(* ------------------ the handler observed on its own ------------------- *)
InitHandle ==
    /\ AtRest /\ configured \in BOOLEAN
    /\ collab \in Behaviours
    /\ response = NoResponse
    /\ payload = NoBody /\ parsed = NotParsed /\ reparsed = NotParsed
    /\ transport = NoMeta /\ ident = NoIdent

\* lines 188-216 for a validated payload
Handle ==
    /\ response = NoResponse
    /\ response' = create_affirmation(configured, collab)
    /\ UNCHANGED <<service, validation, identification, collab>>

NextHandle == Handle
SpecHandle == InitHandle /\ [][NextHandle]_vars


(* ===================================================================== *)
(*                              properties                               *)
(* ===================================================================== *)

\* the request r leaves the critical section in this step
AdmitStep(r) == pc[r] = "cs" /\ pc'[r] # "cs"

\* what pruning must leave of a deque: the entries after its longest prefix
\* of timestamps strictly older than the cutoff
DropCount(old, cutoff) ==
    CHOOSE k \in 0..Len(old) :
        /\ \A i \in 1..k : old[i] < cutoff
        /\ k < Len(old) => old[k + 1] >= cutoff
Remaining(old, cutoff) == SubSeq(old, DropCount(old, cutoff) + 1, Len(old))

\* the Allowed admits of client c with timestamps in lo..hi
RECURSIVE SumAllowed(_, _, _)
SumAllowed(c, lo, hi) ==
    IF lo > hi THEN 0
    ELSE (IF lo \in Times THEN allowed[c][lo] ELSE 0) + SumAllowed(c, lo + 1, hi)

\* the window of windowSeconds ticks that starts at s
WindowEnd(s) == s + windowSeconds - 1

(* C1: once maxRequests admits of a client were Allowed with timestamps in
   one window of windowSeconds, every further admit of that client with a
   timestamp in the same window is Denied and answered 429. *)
C1_DeniedAfterQuota ==
    [][\A r \in Reqs :
          ( /\ AdmitStep(r)
            /\ \E s \in Times :
                 /\ s <= now[r] /\ now[r] <= WindowEnd(s)
                 /\ SumAllowed(clientId[r], s, WindowEnd(s)) >= maxRequests )
          => (outcome'[r] = "Denied" /\ status'[r] = 429)]_vars

(* C2: under every interleaving of requests that read `now` before taking
   the lock, the Allowed admits of one client with timestamps in any
   window of windowSeconds never number more than maxRequests. *)
C2_AtMostNPerWindow ==
    \A c \in ClientIds : \A s \in Times :
        SumAllowed(c, s, WindowEnd(s)) <= maxRequests

\* every recorded timestamp of r's client is at least d older than r's now
AllOlderBy(r, d) ==
    \A i \in 1..Len(storage[clientId[r]]) : now[r] - storage[clientId[r]][i] >= d

(* C3, as claimed: an admit whose timestamp is at least windowSeconds later
   than the client's most recent recorded timestamp (exactly windowSeconds
   included) is Allowed and leaves a sequence of length 1. *)
C3_ResetAtWindow ==
    [][\A r \in Reqs :
          (AdmitStep(r) /\ AllOlderBy(r, windowSeconds))
          => (outcome'[r] = "Allowed" /\ Len(storage'[clientId[r]]) = 1)]_vars

(* C3, amended: an admit whose timestamp is more than windowSeconds later
   than every recorded timestamp of the client is Allowed and leaves the
   sequence <<now>>, of length 1. *)
C3_ResetAfterWindow ==
    [][\A r \in Reqs :
          (AdmitStep(r) /\ AllOlderBy(r, windowSeconds + 1))
          => (outcome'[r] = "Allowed" /\ storage'[clientId[r]] = <<now[r]>>)]_vars

\* an admit was Allowed after the window of an earlier Allowed admit of the
\* same client had elapsed, and the sequence holds that admit alone
C3_Witness ==
    \E r \in Reqs :
        /\ outcome[r] = "Allowed"
        /\ storage[clientId[r]] = <<now[r]>>
        /\ \E t \in Times : t < now[r] - windowSeconds /\ allowed[clientId[r]][t] > 0

(* C4: admit appends `now` exactly when it returns Allowed: after a Denied
   admit the sequence is the pruned sequence, after an Allowed admit it is
   the pruned sequence with `now` appended at the end. *)
C4_AppendIffAllowed ==
    [][\A r \in Reqs :
          AdmitStep(r) =>
            LET kept == Remaining(storage[clientId[r]], now[r] - windowSeconds)
            IN  \/ /\ outcome'[r] = "Denied"
                   /\ storage'[clientId[r]] = kept
                \/ /\ outcome'[r] = "Allowed"
                   /\ storage'[clientId[r]] = Append(kept, now[r])]_vars

\* one request was Denied and another Allowed, both still in flight
C4_Witness ==
    \E r1, r2 \in Reqs :
        /\ outcome[r1] = "Denied" /\ status[r1] = 429
        /\ outcome[r2] = "Allowed"
        /\ now[r2] \in {storage[clientId[r2]][i] : i \in 1..Len(storage[clientId[r2]])}

(* C5: the limiter lock is held only inside the critical section of
   rate_limit_middleware: never by a request that was handed downstream
   (validation, handler, external call) or that has its response. *)
C5_LockOnlyInCriticalSection ==
    /\ lock # NoHolder => pc[lock] = "cs"
    /\ \A r \in Reqs :
         pc[r] \in {"call_next", "handler", "calling", "done"} => lock # r

\* while one request waits for the external model, another holds the lock
C5_Witness ==
    \E r1, r2 \in Reqs : r1 # r2 /\ pc[r1] = "calling" /\ lock = r2 /\ pc[r2] = "cs"

\* the gated route, spelled out
Gated(rt) == rt = [method |-> "POST", path |-> "/api/affirmation"]

(* C6: clients are limited independently: an admit for one client leaves
   every other client's sequence as it was, and it is Denied exactly when
   the client's own pruned sequence holds maxRequests entries or more. *)
C6_ClientsIndependent ==
    [][\A r \in Reqs :
          AdmitStep(r) =>
            /\ \A c \in ClientIds \ {clientId[r]} : storage'[c] = storage[c]
            /\ outcome'[r] = "Denied" <=>
                 Len(Remaining(storage[clientId[r]], now[r] - windowSeconds))
                   >= maxRequests
            /\ outcome'[r] \in {"Denied", "Allowed"}]_vars

\* one client was Denied, its sequence is full, and a request of another
\* client with a timestamp not earlier was Allowed
C6_Witness ==
    \E r1, r2 \in Reqs :
        /\ outcome[r1] = "Denied"
        /\ Len(storage[clientId[r1]]) >= maxRequests
        /\ outcome[r2] = "Allowed"
        /\ clientId[r2] # clientId[r1]
        /\ now[r2] >= now[r1]

(* C7: only POST /api/affirmation passes through the limiter: a request for
   any other method or path gets no decision of the limiter, is never
   answered 429, and no step of it changes any client's sequence. *)
C7_OtherRoutesBypass ==
    [][\A r \in Reqs :
          (pc'[r] # "idle" /\ ~Gated(Route(r)')) =>
            /\ outcome'[r] = "None"
            /\ status'[r] # 429
            /\ pc'[r] # pc[r] => storage' = storage]_vars

\* GET /health was answered 200 for a client whose quota is exhausted now
C7_Witness ==
    \E r \in Reqs :
        LET bucket == storage[GetClientIdentifier(Meta(r))]
        IN  /\ Route(r) = [method |-> "GET", path |-> "/health"]
            /\ status[r] = 200
            /\ Len(bucket) >= maxRequests
            /\ \A i \in 1..Len(bucket) : bucket[i] >= clock - windowSeconds

\* every field of the body validates
BodyValid(b) ==
    LET v == ValidateBody(b)
    IN  v.name.ok /\ v.feeling.ok /\ v.details.ok /\ v.language.ok

(* C8: the external model is invoked for a request only after the limiter
   Allowed it and its body passed validation: a request answered 429 or 422
   never caused a call. *)
C8_CallOnlyAfterAllowedAndValid ==
    \A r \in Reqs :
        /\ called[r] =>
             /\ outcome[r] = "Allowed"
             /\ BodyValid(Body(r))
             /\ configured
        /\ status[r] \in {429, 422} => ~called[r]

\* the external model is being called for one request while another was
\* answered 422
C8_Witness ==
    \E r1, r2 \in Reqs :
        /\ called[r1] /\ pc[r1] = "calling"
        /\ status[r2] = 422 /\ ~called[r2]

(* C9: the limiter decides first: a POST /api/affirmation of a client whose
   quota is exhausted is answered 429 at the admit, whatever its body and
   whether or not the external model is configured, and the answer stays
   429: nothing of the request runs downstream. *)
C9_LimiterDecidesFirst ==
    [][\A r \in Reqs :
          /\ ( /\ AdmitStep(r)
               /\ Len(Remaining(storage[clientId[r]], now[r] - windowSeconds))
                    >= maxRequests )
             => (status'[r] = 429 /\ pc'[r] = "done" /\ ~called'[r])
          /\ status[r] = 429 => (status'[r] = 429 \/ pc'[r] = "idle")]_vars

\* a request with a body that fails validation was answered 429 while the
\* external model is not configured
C9_Witness ==
    \E r \in Reqs :
        /\ status[r] = 429
        /\ ~BodyValid(Body(r))
        /\ ~configured

(* C10: an Allowed admit stays counted whatever happens to the request
   afterwards: a client's sequence changes only in an admit of that client,
   which drops a prefix of entries strictly older than now - windowSeconds
   and may append now; no other step (422, 500, 502, 200, disconnect)
   touches it. *)
C10_NeverRolledBack ==
    [][\A c \in ClientIds :
          storage'[c] # storage[c] =>
            \E r \in Reqs :
              /\ AdmitStep(r)
              /\ clientId[r] = c
              /\ \E k \in 0..Len(storage[c]) :
                   /\ \A i \in 1..k : storage[c][i] < now[r] - windowSeconds
                   /\ LET rest == SubSeq(storage[c], k + 1, Len(storage[c]))
                      IN  storage'[c] \in {rest, Append(rest, now[r])}]_vars

\* requests were answered 422 and 500 or 502 and their timestamps are still
\* in their clients' sequences
C10_Witness ==
    \E r1, r2 \in Reqs :
        /\ status[r1] = 422 /\ status[r2] \in {500, 502}
        /\ \A r \in {r1, r2} :
             /\ outcome[r] = "Allowed"
             /\ \E i \in 1..Len(storage[clientId[r]]) :
                  storage[clientId[r]][i] = now[r]

(* ---------------------- claims on the validator ----------------------- *)
EmojiMessage == "Please use descriptive text instead of emoji for your feeling."

\* some code point of the text lies in the emoji ranges
HasEmoji(s) == \E i \in 1..Len(s) : s[i] \in EmojiChars

(* C11: every feeling that contains a code point of the emoji ranges, a
   feeling that is one emoji included, is rejected with the emoji
   message. *)
C11_EmojiMessage ==
    (parsed # NotParsed /\ HasEmoji(payload.feeling))
    => (~parsed.feeling.ok /\ parsed.feeling.msg = EmojiMessage)

\* within the length bounds of the field the emoji rule does answer
C11_EmojiWithinBounds ==
    ( /\ parsed # NotParsed
      /\ HasEmoji(payload.feeling)
      /\ Len(Strip(payload.feeling)) \in FeelingMinLength..FeelingMaxLength )
    => (~parsed.feeling.ok /\ parsed.feeling.msg = EmojiMessage)

\* a text without its leading and trailing whitespace, by positions
Trimmed(s) ==
    LET keep == {i \in 1..Len(s) : ~IsSpace(s[i])}
    IN  IF keep = {} THEN <<>>
        ELSE SubSeq(s, CHOOSE i \in keep : \A j \in keep : i <= j,
                       CHOOSE i \in keep : \A j \in keep : i >= j)

\* the trimmed feeling of the body under validation
TrimmedFeeling == Trimmed(payload.feeling)

FeelingInBounds == Len(TrimmedFeeling) \in FeelingMinLength..FeelingMaxLength

\* the rules of the feeling chain, each stated on its own
RuleEmpty(f) == Len(f) = 0
RuleShorthand(f, e) ==
    /\ Len(e[1]) = Len(f)
    /\ \A i \in 1..Len(f) : ToLower(f[i]) = e[1][i]
RuleDensity(f) ==
    ~\E i, j, k \in 1..Len(f) :
        i < j /\ j < k /\ IsAlpha(f[i]) /\ IsAlpha(f[j]) /\ IsAlpha(f[k])
\* every letter of the text lies in one run of fewer than 5 characters
\* between whitespace
RuleSingleWord(f) ==
    \E i \in 1..Len(f) : \E j \in i..(i + 3) :
        /\ j <= Len(f)
        /\ \A k \in i..j : ~IsSpace(f[k])
        /\ i = 1 \/ IsSpace(f[i - 1])
        /\ j = Len(f) \/ IsSpace(f[j + 1])
        /\ \E k \in i..j : IsAlpha(f[k])
        /\ \A k \in 1..Len(f) : IsAlpha(f[k]) => (i <= k /\ k <= j)

ShorthandMessage(e) ==
    "Did you mean '" \o e[2] \o "'? Please use a full descriptive word."
DensityMessage == "Please use valid words to describe your feeling."
SingleWordMessage ==
    "Please be more descriptive, for example: 'anxious about my presentation'."

\* what the chain answers for f: the message of the earliest violated rule
FirstFailure(f) ==
    IF RuleEmpty(f) THEN {"Please describe how you are feeling."}
    ELSE IF HasEmoji(f) THEN {EmojiMessage}
    ELSE IF \E e \in FEELING_SUGGESTIONS : RuleShorthand(f, e)
    THEN {ShorthandMessage(e) : e \in {x \in FEELING_SUGGESTIONS : RuleShorthand(f, x)}}
    ELSE IF RuleDensity(f) THEN {DensityMessage}
    ELSE IF RuleSingleWord(f) THEN {SingleWordMessage}
    ELSE {}

(* C12: the feeling rules are an ordered chain in which the first failure
   wins: for every feeling within the length bounds the answer carries the
   message of the earliest violated rule in the order non-empty, emoji,
   shorthand, fewer than 3 letters, single word shorter than 5; "anx" gets
   the suggestion "anxious", "ok" the letter message, "sad" the single-word
   message, and a feeling that violates no rule is accepted as trimmed. *)
C12_FirstFailureWins ==
    (parsed # NotParsed /\ FeelingInBounds) =>
        LET f == TrimmedFeeling
            first == FirstFailure(f)
        IN  /\ first = {} => (parsed.feeling.ok /\ parsed.feeling.value = f)
            /\ first # {} => (~parsed.feeling.ok /\ parsed.feeling.msg \in first)
            /\ f = <<"a", "n", "x">> =>
                 parsed.feeling.msg = ShorthandMessage(<<f, "anxious">>)
            /\ f = <<"o", "k">> => parsed.feeling.msg = DensityMessage
            /\ f = <<"s", "a", "d">> => parsed.feeling.msg = SingleWordMessage
            /\ f = NervousBeforePresentation => parsed.feeling.ok

\* "Anx" with surrounding blanks was answered with the suggestion although
\* the single-word rule is violated as well
C12_Witness ==
    /\ parsed # NotParsed
    /\ payload.feeling # TrimmedFeeling
    /\ \E e \in FEELING_SUGGESTIONS : RuleShorthand(TrimmedFeeling, e)
    /\ \E i \in 1..Len(TrimmedFeeling) : TrimmedFeeling[i] \in UpperLetters
    /\ RuleSingleWord(TrimmedFeeling)
    /\ parsed.feeling.msg = "Did you mean 'anxious'? Please use a full descriptive word."

LengthErrors == {"string_too_short", "string_too_long"}

\* the messages of the rules of the name and feeling chains
RuleMessages ==
    {"Name must contain valid characters.",
     "Please describe how you are feeling.",
     EmojiMessage, DensityMessage, SingleWordMessage}
    \cup {ShorthandMessage(e) : e \in FEELING_SUGGESTIONS}

\* the messages in the details of the 422 answer
ReportedMessages ==
    {parsed[fld].msg : fld \in {x \in {"name", "feeling", "details", "language"} :
                                  ~parsed[x].ok}}

NameOutOfBounds ==
    Len(Trimmed(payload.name)) \notin NameMinLength..NameMaxLength
FeelingOutOfBounds == ~FeelingInBounds

(* C13, as claimed: a request whose trimmed name is outside 1..60
   characters, whose trimmed feeling is outside 2..280 characters or whose
   details exceed 500 characters is rejected, and its answer carries none
   of the rule messages of the name and feeling chains. *)
C13_BoundsBeforeRules ==
    ( /\ parsed # NotParsed
      /\ \/ NameOutOfBounds
         \/ FeelingOutOfBounds
         \/ Len(payload.details) > DetailsMaxLength )
    => (HasErrors(parsed) /\ ReportedMessages \cap RuleMessages = {})

(* C13, amended: each field's length bound is checked on the trimmed value
   before any rule of that field runs: a field out of its bounds is reported
   with the length error and with no rule message, and the request is
   rejected; the other fields are validated on their own. *)
C13_FieldBoundsBeforeRules ==
    parsed # NotParsed =>
        /\ NameOutOfBounds =>
             /\ ~parsed.name.ok
             /\ parsed.name.msg =
                  (IF Trimmed(payload.name) = <<>> THEN "string_too_short"
                   ELSE "string_too_long")
        /\ FeelingOutOfBounds =>
             /\ ~parsed.feeling.ok
             /\ parsed.feeling.msg =
                  (IF Len(TrimmedFeeling) < FeelingMinLength THEN "string_too_short"
                   ELSE "string_too_long")
        /\ Len(Trimmed(payload.details)) > DetailsMaxLength =>
             (~parsed.details.ok /\ parsed.details.msg = "string_too_long")
        /\ ( \/ NameOutOfBounds \/ FeelingOutOfBounds
             \/ Len(Trimmed(payload.details)) > DetailsMaxLength )
           => HasErrors(parsed)
        /\ ~NameOutOfBounds => parsed.name.msg \notin LengthErrors
        /\ ~FeelingOutOfBounds => parsed.feeling.msg \notin LengthErrors

\* a name of 61 characters, none of them valid in a name, was reported as
\* too long and not as a name without valid characters
C13_Witness ==
    /\ parsed # NotParsed
    /\ Len(payload.name) > NameMaxLength
    /\ \A i \in 1..Len(payload.name) : ~NameChar(payload.name[i])
    /\ parsed.name.msg = "string_too_long"
    /\ HasErrors(parsed)

\* a name of alphanumerics, blanks, hyphens and apostrophes only, without
\* surrounding whitespace, within the length bounds
CleanName(n) ==
    /\ Len(n) \in NameMinLength..NameMaxLength
    /\ \A i \in 1..Len(n) : IsAlnum(n[i]) \/ n[i] \in {" ", "-", "'"}
    /\ ~IsSpace(n[1]) /\ ~IsSpace(n[Len(n)])

(* C14: validation is idempotent: the cleaned fields of an accepted request
   are accepted again and come out with the same name and feeling (and
   details and language); a name that is clean already passes unchanged. *)
C14_Idempotent ==
    /\ reparsed # NotParsed =>
         /\ ~HasErrors(reparsed)
         /\ reparsed.name.value = parsed.name.value
         /\ reparsed.feeling.value = parsed.feeling.value
         /\ reparsed.details.value = parsed.details.value
         /\ reparsed.language.value = parsed.language.value
    /\ (parsed # NotParsed /\ CleanName(payload.name)) =>
         (parsed.name.ok /\ parsed.name.value = payload.name)

\* a name that lost a character and then a blank in cleaning was accepted
\* and its cleaned fields were validated again
C14_Witness ==
    /\ reparsed # NotParsed
    /\ \E i \in 1..Len(payload.name) : ~NameChar(payload.name[i])
    /\ Len(parsed.name.value) + 1 < Len(payload.name)
    /\ reparsed.name.value = parsed.name.value

(* ----------------------- claims on the handler ------------------------ *)
WhitespaceOnly(s) == \A i \in 1..Len(s) : s[i] \in SpaceChars

Answered(code, text) ==
    /\ response.status = code
    /\ response.error = "HttpError"
    /\ response.message = text

(* C15, as claimed: collaborator problems are always translated: not
   configured gives 500 "Server is missing OPENAI_API_KEY.", an empty or
   whitespace-only output gives 502 "Empty response from language model.",
   and any exception raised by the call gives 502 "Failed to generate
   affirmation.". *)
C15_AlwaysTranslated ==
    response # NoResponse =>
        /\ ~configured => Answered(500, "Server is missing OPENAI_API_KEY.")
        /\ (configured /\ collab.raises = NoException /\ WhitespaceOnly(collab.text))
           => Answered(502, "Empty response from language model.")
        /\ (configured /\ collab.raises # NoException)
           => Answered(502, "Failed to generate affirmation.")

(* C15, amended: as claimed, except that an exception of pydantic's class
   ValidationError raised by the call gives 400 "Invalid input payload.";
   every other Exception gives 502 "Failed to generate affirmation.". *)
C15_TranslatedByClass ==
    response # NoResponse =>
        /\ ~configured => Answered(500, "Server is missing OPENAI_API_KEY.")
        /\ (configured /\ collab.raises = NoException /\ WhitespaceOnly(collab.text))
           => Answered(502, "Empty response from language model.")
        /\ (configured /\ collab.raises = "ValidationError")
           => Answered(400, "Invalid input payload.")
        /\ (configured /\ collab.raises \notin {NoException, "ValidationError"})
           => Answered(502, "Failed to generate affirmation.")

\* an output of blanks only was answered with the empty-response message
C15_Witness ==
    /\ configured
    /\ collab.raises = NoException
    /\ collab.text # <<>>
    /\ response.status = 502
    /\ response.message = "Empty response from language model."

(* ------------------ claims on the client identifier ------------------- *)
\* the text before the first comma of the header, by positions
HeaderFirstToken(x) ==
    LET commas == {i \in 1..Len(x) : x[i] = ","}
    IN  IF commas = {} THEN x
        ELSE SubSeq(x, 1, (CHOOSE i \in commas : \A j \in commas : i <= j) - 1)

(* C16: the client identifier is the first comma-separated token of the
   forwarded-address header, trimmed, when the header is present and that
   token is not empty; otherwise the peer address when there is one;
   otherwise "unknown-client".  It depends on the transport metadata
   alone and is never empty. *)
C16_ClientIdentifier ==
    ident # NoIdent =>
        LET token == Trimmed(HeaderFirstToken(transport.xff))
        IN  /\ (transport.xff # <<>> /\ token # <<>>) => ident = token
            /\ (transport.xff = <<>> \/ token = <<>>) =>
                 /\ transport.host # <<>> => ident = transport.host
                 /\ transport.host = <<>> => ident = <<"unknown-client">>

\* a header whose first token is blank although a later token is not: the
\* peer address was used
C16_Witness ==
    /\ ident = <<"b">>
    /\ transport.xff # <<>>
    /\ Trimmed(HeaderFirstToken(transport.xff)) = <<>>
    /\ \E i \in 1..Len(transport.xff) : transport.xff[i] = "a"

(* ------------------- claims on the timestamp deques ------------------- *)
(* C17: in every reachable state, whatever the sequence and interleaving
   of admits, each client's sequence holds at most maxRequests entries. *)
C17_LengthAtMostMax ==
    \A c \in ClientIds : Len(storage[c]) <= maxRequests

\* a client's sequence is full, with more than one entry, two requests of
\* the client read their timestamps out of order, and one was Denied
C17_Witness ==
    \E r1, r2 \in Reqs :
        /\ clientId[r1] = clientId[r2]
        /\ outcome[r1] = "Denied"
        /\ outcome[r2] = "Allowed"
        /\ now[r2] < now[r1]
        /\ maxRequests > 1
        /\ Len(storage[clientId[r1]]) = maxRequests

(* C18: each client's sequence is ordered oldest first (non-decreasing)
   under every interleaving of requests that read their timestamp before
   taking the lock, so that pruning from the head leaves no entry older
   than now - windowSeconds behind. *)
C18_OldestFirst ==
    \A c \in ClientIds : \A i, j \in 1..Len(storage[c]) :
        i < j => storage[c][i] <= storage[c][j]

\* the oldest timestamp still counted for the client of r
OldestCounted(r) ==
    CHOOSE t \in {storage[clientId[r]][i] : i \in 1..Len(storage[clientId[r]])} :
        \A i \in 1..Len(storage[clientId[r]]) : t <= storage[clientId[r]][i]

(* C19: Denied requests never extend a client's lockout: an admit whose
   timestamp is more than windowSeconds after the oldest timestamp still
   counted for the client is Allowed, however many requests were Denied
   before it. *)
C19_DeniedNeverExtends ==
    [][\A r \in Reqs :
          ( /\ AdmitStep(r)
            /\ storage[clientId[r]] # <<>>
            /\ now[r] - OldestCounted(r) > windowSeconds )
          => outcome'[r] = "Allowed"]_vars

(* C20: every 200 answer of POST /api/affirmation carries an affirmation
   that is not empty, holds no null byte and neither starts nor ends with
   whitespace: an output that is empty once its null bytes are removed and
   it is trimmed is answered 502, not 200. *)
C20_NonEmptySanitised ==
    response.status = 200 =>
        LET text == response.affirmation
        IN  /\ text # <<>>
            /\ \A i \in 1..Len(text) : text[i] # NulChar
            /\ text # <<>> => (text[1] \notin SpaceChars /\ text[Len(text)] \notin SpaceChars)

=============================================================================
